---- MODULE Spec2Model ----
(***************************************************************************)
(* Model of the lcd_pcf8574 driver: an HD44780 character LCD driven in     *)
(* 4-bit mode through a PCF8574 I2C GPIO expander.                         *)
(*                                                                         *)
(*   command.py   HD44780Instruction: the opcode encoders (pure)           *)
(*   lcd_i2c.py   LCD: the controller object and its bus discipline        *)
(*                                                                         *)
(* The expander and the display behind it are the environment: write_gpio  *)
(* and read_gpio are modelled with the latch of the PCF8574 and the        *)
(* nibble/busy state of an HD44780 that answers "busy" to a number of      *)
(* busy-flag reads chosen by the environment.                              *)
(***************************************************************************)
EXTENDS Integers, Sequences, FiniteSets, TLC

(***************************************************************************)
(* Python integer operators on non-negative integers.                      *)
(***************************************************************************)
RECURSIVE BitAnd(_, _)
BitAnd(a, b) ==
    IF a = 0 \/ b = 0 THEN 0
    ELSE (IF a % 2 = 1 /\ b % 2 = 1 THEN 1 ELSE 0) + 2 * BitAnd(a \div 2, b \div 2)

RECURSIVE BitOr(_, _)
BitOr(a, b) ==
    IF a = 0 THEN b
    ELSE IF b = 0 THEN a
    ELSE (IF a % 2 = 1 \/ b % 2 = 1 THEN 1 ELSE 0) + 2 * BitOr(a \div 2, b \div 2)

\* a & ~m for non-negative a and m
BitAndNot(a, m) == a - BitAnd(a, m)

RECURSIVE Pow2(_)
Pow2(n) == IF n = 0 THEN 1 ELSE 2 * Pow2(n - 1)

Shl(a, n) == a * Pow2(n)
Shr(a, n) == a \div Pow2(n)

(***************************************************************************)
(* lcd_i2c.py: module constants                                            *)
(***************************************************************************)
DEFAULT_COLUMNS == 16
DEFAULT_ROWS == 2

\* Durations are counted in microseconds.
MILLISECOND == 1000
MICROSECOND == 1

FLAG_BACKLIGHT_ON == 8
FLAG_BACKLIGHT_OFF == 0
FLAG_DATA_ENABLE == 4
FLAG_READ_ENABLE == 2
FLAG_WRITE_ENABLE == 0
FLAG_REGISTER_DATA == 1
FLAG_REGISTER_INSTRUCTION == 0
FLAG_LCD_BUSY == 128

ADDR_COL_INCREMENT == 1
ADDR_ROW_INCREMENT == 64

(***************************************************************************)
(* command.py: HD44780Instruction                                          *)
(***************************************************************************)
DISPLAY_CLEAR == 1
RETURN_HOME == 2
ENTRY_MODE_SET == 4
DISPLAY_CONTROL == 8
CURSOR_DISPLAY_SHIFT == 16
FUNCTION_SET == 32
CGRAM_ADDR_SET == 64
DDRAM_ADDR_SET == 128
BUSY_FLAG_READ == 0

INCREMENT_ADDRESS == 2
SHIFT_DISPLAY == 1

DISPLAY_ON == 4
CURSOR_ON == 2
BLINK_ON == 1

CURSOR_SHIFT_DISPLAY == 8
CURSOR_SHIFT_RIGHT == 4

DATA_LENGTH_8_BIT == 16
MODE_2_LINE == 8
FONT_5X10 == 4

clear_display == DISPLAY_CLEAR

return_home == RETURN_HOME

entry_mode_set(address, shift) ==
    LET v0 == ENTRY_MODE_SET
        v1 == IF address = "increment" THEN BitOr(v0, INCREMENT_ADDRESS) ELSE v0
        v2 == IF shift THEN BitOr(v1, SHIFT_DISPLAY) ELSE v1
    IN  v2

display_control(display_on, cursor_on, blink_on) ==
    LET v0 == DISPLAY_CONTROL
        v1 == IF display_on THEN BitOr(v0, DISPLAY_ON) ELSE v0
        v2 == IF cursor_on THEN BitOr(v1, CURSOR_ON) ELSE v1
        v3 == IF blink_on THEN BitOr(v2, BLINK_ON) ELSE v2
    IN  v3

cursor_control(shift, direction) ==
    LET v0 == CURSOR_DISPLAY_SHIFT
        v1 == IF shift = "display" THEN BitOr(v0, CURSOR_SHIFT_DISPLAY) ELSE v0
        v2 == IF direction = "right" THEN BitOr(v1, CURSOR_SHIFT_RIGHT) ELSE v1
    IN  v2

\* Variant: the 2-line flag is set for one line.
function_set_one_line(bits, lines, font) ==
    LET v0 == FUNCTION_SET
        v1 == IF bits = 8 THEN BitOr(v0, DATA_LENGTH_8_BIT) ELSE v0
        v2 == IF lines = 1 THEN BitOr(v1, MODE_2_LINE) ELSE v1
        v3 == IF font = "5x10" THEN BitOr(v2, FONT_5X10) ELSE v2
    IN  v3

function_set(bits, lines, font) ==
    LET v0 == FUNCTION_SET
        v1 == IF bits = 8 THEN BitOr(v0, DATA_LENGTH_8_BIT) ELSE v0
        v2 == IF lines = 2 THEN BitOr(v1, MODE_2_LINE) ELSE v1
        v3 == IF font = "5x10" THEN BitOr(v2, FONT_5X10) ELSE v2
    IN  v3

cgram_address_set(address) == BitOr(CGRAM_ADDR_SET, address)

ddram_address_set(address) == BitOr(DDRAM_ADDR_SET, address)

read_busy_flag == BUSY_FLAG_READ

(***************************************************************************)
(* Bounds of the model                                                     *)
(***************************************************************************)
MaxBusy == 1

(***************************************************************************)
(* The environment: PCF8574 latch and the HD44780 behind it.               *)
(*                                                                         *)
(* A "world" s is a record                                                 *)
(*   lcd  the LCD object's fields                                          *)
(*   pcf  the expander and display: gpio (every byte written to the latch  *)
(*        during the current operation, in order), latch (the byte now on  *)
(*        the pins), mode8 (display still in 8-bit interface mode), nib    *)
(*        (1 when the first nibble of a 4-bit transfer has been strobed),  *)
(*        hi (that first nibble), ac (the display's address counter),      *)
(*        dctl (the display-control instruction the display last got),     *)
(*        busy (number of busy-flag reads still to be answered "busy"),    *)
(*        nsent (bytes written to the display in the current operation),   *)
(*        busy0 (how slow this display is: it seeds the number of busy     *)
(*        answers after each byte), stuck (a faulty display: its busy flag *)
(*        never clears), ready (the busy flag has been read clear since    *)
(*        the last byte written to the display), hasty (a byte was written *)
(*        in the current operation while ready was false), fuel (the       *)
(*        number of bus transactions that will still succeed before the    *)
(*        I2C bus fails; negative: it never fails), bus (the history of    *)
(*        the current operation: every write_gpio, read_gpio and sleep in  *)
(*        order, each with the controller's backlight and cursor fields at *)
(*        that moment; read by the properties only)                        *)
(*   ret  the value returned by the call just made                         *)
(*   exc  the exception in flight, "" when there is none                   *)
(***************************************************************************)
EnableHigh(v) == (v \div FLAG_DATA_ENABLE) % 2 = 1
IsRead(v) == (v \div FLAG_READ_ENABLE) % 2 = 1
IsData(v) == (v \div FLAG_REGISTER_DATA) % 2 = 1

\* The display stays busy for a bounded number of polls after the j-th byte
\* of an operation; the number differs from byte to byte.
BusyAfter(busy0, j) == (busy0 + j - 1) % (MaxBusy + 1)

\* The display's address counter after it has executed one byte: a data
\* write moves it on by one, clear and home reset it, a DDRAM address set
\* loads it; the other instructions leave it alone.
HD44780AddressCounter(ac, byte, isData) ==
    IF isData THEN (ac + 1) % DDRAM_ADDR_SET
    ELSE IF byte >= DDRAM_ADDR_SET THEN byte % DDRAM_ADDR_SET
    ELSE IF byte >= CGRAM_ADDR_SET THEN ac
    ELSE IF byte \div RETURN_HOME = 1 \/ byte = DISPLAY_CLEAR THEN 0
    ELSE ac

\* The display's on/off control register: the last display-control
\* instruction (0000 1DCB) it has executed.
HD44780DisplayControl(dctl, byte, isData) ==
    IF ~isData /\ byte \div DISPLAY_CONTROL = 1 THEN byte ELSE dctl

\* The display's reaction to a falling edge of E while v was on the pins.
HD44780Strobe(p, v) ==
    IF ~IsRead(v)
    THEN IF p.mode8
         THEN [p EXCEPT !.mode8 = (v \div 16) # (FUNCTION_SET \div 16)]
         ELSE IF p.nib = 0
              THEN [p EXCEPT !.nib = 1, !.hi = v \div 16]
              ELSE [p EXCEPT !.nib = 0,
                             !.ac = HD44780AddressCounter(p.ac, p.hi * 16 + v \div 16,
                                                          IsData(v)),
                             !.dctl = HD44780DisplayControl(p.dctl, p.hi * 16 + v \div 16,
                                                            IsData(v)),
                             !.nsent = p.nsent + 1,
                             !.busy = IF p.stuck THEN 1
                                      ELSE BusyAfter(p.busy0, p.nsent + 1),
                             !.hasty = p.hasty \/ ~p.ready,
                             !.ready = FALSE]
    ELSE IF p.mode8
         THEN p
         ELSE IF p.nib = 0
              THEN [p EXCEPT !.nib = 1]
              ELSE [p EXCEPT !.nib = 0,
                             !.busy = IF ~IsData(v) /\ p.busy > 0 /\ ~p.stuck
                                      THEN p.busy - 1 ELSE p.busy,
                             !.ready = p.ready \/ (~IsData(v) /\ p.busy = 0)]

\* One entry of the history pcf.bus.
BusEvent(s, kind, value, ok) ==
    [kind |-> kind, value |-> value, ok |-> ok,
     backlight |-> s.lcd._backlight,
     row |-> s.lcd._current_row, col |-> s.lcd._current_column]

BusError == "OSError"

\* An I2C transaction that fails raises the bus driver's exception.
BusFails(s) == s.pcf.fuel = 0

BusFailure(s, kind, value) ==
    [s EXCEPT !.exc = BusError,
              !.pcf.bus = Append(s.pcf.bus, BusEvent(s, kind, value, FALSE))]

BusFuel(p) == IF p.fuel > 0 THEN p.fuel - 1 ELSE p.fuel

\* PCF8574.write_gpio: latch the byte; the display sees the E edge.
write_gpio(s, byte) ==
    IF BusFails(s)
    THEN BusFailure(s, "write", byte)
    ELSE LET p == s.pcf
             q == IF EnableHigh(p.latch) /\ ~EnableHigh(byte)
                  THEN HD44780Strobe(p, p.latch)
                  ELSE p
         IN  [s EXCEPT !.pcf = [q EXCEPT !.gpio = Append(p.gpio, byte),
                                         !.latch = byte,
                                         !.fuel = BusFuel(p),
                                         !.bus = Append(p.bus,
                                                     BusEvent(s, "write", byte, TRUE))]]

\* What the pins read. During a busy-flag read cycle in 4-bit mode the
\* display drives D7..D4: busy flag and AC6..AC4, then AC3..AC0.
Pins(p) ==
    LET v == p.latch
    IN  IF EnableHigh(v) /\ IsRead(v) /\ ~IsData(v) /\ ~p.mode8
        THEN (IF p.nib = 0
              THEN (IF p.busy > 0 THEN FLAG_LCD_BUSY ELSE 0) + (p.ac \div 16) * 16
              ELSE (p.ac % 16) * 16)
             + (v % 16)
        ELSE v

\* PCF8574.read_gpio: sample the pins; the sample is returned in s.ret.
read_gpio(s) ==
    IF BusFails(s)
    THEN BusFailure(s, "read", 0)
    ELSE [s EXCEPT !.ret = Pins(s.pcf),
                   !.pcf.fuel = BusFuel(s.pcf),
                   !.pcf.bus = Append(s.pcf.bus,
                                      BusEvent(s, "read", Pins(s.pcf), TRUE))]

\* time.sleep: the wait is recorded in the history.
sleep(s, duration) ==
    [s EXCEPT !.pcf.bus = Append(s.pcf.bus, BusEvent(s, "sleep", duration, TRUE))]

(***************************************************************************)
(* Statements in sequence: Bind(e, LAMBDA x : rest) evaluates e, names its *)
(* value x, and goes on with rest, as "x = e; rest" does.                  *)
(***************************************************************************)
Bind(e, rest(_)) == CHOOSE r \in {rest(x) : x \in {e}} : TRUE

\* The same for a call that may raise: Then(call, LAMBDA s : rest) goes on
\* with rest only if the call returned; an exception skips the rest of the
\* method and of its callers.
Then(e, rest(_)) ==
    CHOOSE r \in {IF x.exc = "" THEN rest(x) ELSE x : x \in {e}} : TRUE

(***************************************************************************)
(* lcd_i2c.py: class LCD, private methods                                  *)
(***************************************************************************)
\* Variant: the backlight flag is left out of the low nibble.
_lsb_no_backlight(s) == BitOr(s.lcd._write_enable, s.lcd._register)

_lsb(s) == BitOr(BitOr(s.lcd._backlight, s.lcd._write_enable), s.lcd._register)

\* Variant: E is taken low again even when the sample could not be read.
_pulse_enable_recover(s, byte) ==
    LET byte_low == BitAndNot(byte, FLAG_DATA_ENABLE)
        byte_high == BitOr(byte, FLAG_DATA_ENABLE)
    IN  Then(write_gpio(s, byte_high), LAMBDA s1 :
        Then(sleep(s1, 2 * MICROSECOND), LAMBDA s2 :
        Bind(read_gpio(s2), LAMBDA s3 :
        Then(write_gpio(s3, byte_low), LAMBDA s4 :
        Then(sleep(s4, 75 * MICROSECOND), LAMBDA s5 :
        [s5 EXCEPT !.ret = s3.ret])))))

\* Variant: the pins are sampled after E has gone low.
_pulse_enable_sample_late(s, byte) ==
    LET byte_low == BitAndNot(byte, FLAG_DATA_ENABLE)
        byte_high == BitOr(byte, FLAG_DATA_ENABLE)
    IN  Then(write_gpio(s, byte_high), LAMBDA s1 :
        Then(sleep(s1, 2 * MICROSECOND), LAMBDA s2 :
        Then(write_gpio(s2, byte_low), LAMBDA s3 :
        Then(read_gpio(s3), LAMBDA s4 :
        Then(sleep(s4, 75 * MICROSECOND), LAMBDA s5 :
        [s5 EXCEPT !.ret = s4.ret])))))

_pulse_enable(s, byte) ==
    LET byte_low == BitAndNot(byte, FLAG_DATA_ENABLE)
        byte_high == BitOr(byte, FLAG_DATA_ENABLE)
    IN  Then(write_gpio(s, byte_high), LAMBDA s1 :
        Then(sleep(s1, 2 * MICROSECOND), LAMBDA s2 :
        Then(read_gpio(s2), LAMBDA s3 :
        Then(write_gpio(s3, byte_low), LAMBDA s4 :
        Then(sleep(s4, 75 * MICROSECOND), LAMBDA s5 :
        [s5 EXCEPT !.ret = s3.ret])))))

\* One iteration of the loop of _send_byte; s.ret carries response_buf.
_send_byte_nib(s, idx, nib) ==
    Bind(BitOr(nib, _lsb(s)), LAMBDA val :
    Then(write_gpio(s, val), LAMBDA s1 :
    Then(_pulse_enable(s1, val), LAMBDA s2 :
    LET response_buf == s.ret
        response_nib == BitAnd(s2.ret, 240)
    IN  [s2 EXCEPT !.ret = BitOr(response_buf, Shr(response_nib, 4 * idx))])))

\* Variant: the low nibble goes out first.
_send_byte_low_first(s, byte) ==
    LET val_nib_high == BitAnd(byte, 240)
        val_nib_low == Shl(BitAnd(byte, 15), 4)
    IN  Bind([s EXCEPT !.ret = 0], LAMBDA s0 :
        Then(_send_byte_nib(s0, 0, val_nib_low), LAMBDA s1 :
        _send_byte_nib(s1, 1, val_nib_high)))

_send_byte(s, byte) ==
    LET val_nib_high == BitAnd(byte, 240)
        val_nib_low == Shl(BitAnd(byte, 15), 4)
    IN  Bind([s EXCEPT !.ret = 0], LAMBDA s0 :
        Then(_send_byte_nib(s0, 0, val_nib_high), LAMBDA s1 :
        _send_byte_nib(s1, 1, val_nib_low)))

_check_busy(s) ==
    LET prev_write_enable == s.lcd._write_enable
        s1 == [s EXCEPT !.lcd._write_enable = FLAG_READ_ENABLE]
    IN  Then(_send_byte(s1, read_busy_flag), LAMBDA s2 :
        LET response == s2.ret
        IN  [s2 EXCEPT !.lcd._write_enable = prev_write_enable,
                       !.ret = BitAnd(response, FLAG_LCD_BUSY) > 0])

\* Variant: the wait gives up after one poll.
_wait_for_ready_turn_give_up(s) ==
    Then(_check_busy(s), LAMBDA s1 :
    [s1 EXCEPT !.ret = FALSE])

\* One turn of "while self._check_busy(): sleep(MILLISECOND)": s.ret tells
\* whether the loop goes on.
_wait_for_ready_turn(s) ==
    Then(_check_busy(s), LAMBDA s1 :
    IF s1.ret THEN sleep(s1, MILLISECOND) ELSE s1)

\* Variant: "if" in place of "while", the busy flag is read once.
_wait_for_ready_once(s) ==
    _check_busy(s)

\* while self._check_busy(): sleep(MILLISECOND)
RECURSIVE _wait_for_ready_loop(_)
_wait_for_ready_loop(s) ==
    Then(_wait_for_ready_turn(s), LAMBDA s1 :
    IF s1.ret THEN _wait_for_ready_loop(s1) ELSE s1)

\* The statements of _wait_for_ready before its loop ...
_wait_for_ready_enter(s) ==
    [s EXCEPT !.lcd._write_enable = FLAG_READ_ENABLE,
              !.lcd._register = FLAG_REGISTER_INSTRUCTION]

\* ... and after it.
_wait_for_ready_leave(s, prev_write_enable, prev_register) ==
    [s EXCEPT !.lcd._write_enable = prev_write_enable,
              !.lcd._register = prev_register]

\* Variant: read_write_select is left at read.
_wait_for_ready_no_restore(s) ==
    LET prev_register == s.lcd._register
    IN  Then(_wait_for_ready_loop(_wait_for_ready_enter(s)), LAMBDA s2 :
        [s2 EXCEPT !.lcd._register = prev_register])

_wait_for_ready(s) ==
    LET prev_write_enable == s.lcd._write_enable
        prev_register == s.lcd._register
    IN  Then(_wait_for_ready_loop(_wait_for_ready_enter(s)), LAMBDA s2 :
        _wait_for_ready_leave(s2, prev_write_enable, prev_register))

_send(s, byte) ==
    Then(_send_byte(s, byte), LAMBDA s1 :
    _wait_for_ready(s1))

\* Variant: the cursor flag is passed where the blink flag belongs.
_configure_display_cursor_twice(s) ==
    Bind([s EXCEPT !.lcd._write_enable = FLAG_WRITE_ENABLE,
                   !.lcd._register = FLAG_REGISTER_INSTRUCTION], LAMBDA s1 :
    Bind(display_control(s1.lcd._display_on, s1.lcd._cursor_on, s1.lcd._cursor_on),
         LAMBDA display_ctrl :
    _send(s1, display_ctrl)))

_configure_display(s) ==
    Bind([s EXCEPT !.lcd._write_enable = FLAG_WRITE_ENABLE,
                   !.lcd._register = FLAG_REGISTER_INSTRUCTION], LAMBDA s1 :
    Bind(display_control(s1.lcd._display_on, s1.lcd._cursor_on, s1.lcd._blink_on),
         LAMBDA display_ctrl :
    _send(s1, display_ctrl)))

(***************************************************************************)
(* lcd_i2c.py: class LCD, public methods                                   *)
(***************************************************************************)
\* Variant: the tracked cursor is left where it was.
clear_keep_cursor(s) ==
    Bind([s EXCEPT !.lcd._write_enable = FLAG_WRITE_ENABLE,
                   !.lcd._register = FLAG_REGISTER_INSTRUCTION], LAMBDA s1 :
    _send(s1, clear_display))

clear(s) ==
    Bind([s EXCEPT !.lcd._write_enable = FLAG_WRITE_ENABLE,
                   !.lcd._register = FLAG_REGISTER_INSTRUCTION], LAMBDA s1 :
    Then(_send(s1, clear_display), LAMBDA s2 :
    [s2 EXCEPT !.lcd._current_row = 0,
               !.lcd._current_column = 0]))

\* Variant: the display flag follows the backlight.
backlight_display(s, on) ==
    Bind([s EXCEPT !.lcd._backlight =
                       IF on THEN FLAG_BACKLIGHT_ON ELSE FLAG_BACKLIGHT_OFF,
                   !.lcd._display_on = on,
                   !.lcd._write_enable = FLAG_WRITE_ENABLE,
                   !.lcd._register = FLAG_REGISTER_INSTRUCTION], LAMBDA s1 :
    _send_byte(s1, 0))

backlight(s, on) ==
    Bind([s EXCEPT !.lcd._backlight =
                       IF on THEN FLAG_BACKLIGHT_ON ELSE FLAG_BACKLIGHT_OFF,
                   !.lcd._write_enable = FLAG_WRITE_ENABLE,
                   !.lcd._register = FLAG_REGISTER_INSTRUCTION], LAMBDA s1 :
    _send_byte(s1, 0))

cursor(s, on) ==
    Bind([s EXCEPT !.lcd._cursor_on = on], LAMBDA s1 :
    _configure_display(s1))

blink(s, on) ==
    Bind([s EXCEPT !.lcd._blink_on = on], LAMBDA s1 :
    _configure_display(s1))

home(s) ==
    Bind([s EXCEPT !.lcd._write_enable = FLAG_WRITE_ENABLE,
                   !.lcd._register = FLAG_REGISTER_INSTRUCTION,
                   !.lcd._current_row = 0,
                   !.lcd._current_column = 0], LAMBDA s1 :
    _send(s1, return_home))

\* Variant: rows and columns exchanged in the two modulo operations.
set_position_swapped(s, row, col) ==
    LET prev_write_enable == s.lcd._write_enable
        prev_register == s.lcd._register
    IN  Bind([s EXCEPT !.lcd._write_enable = FLAG_WRITE_ENABLE,
                       !.lcd._register = FLAG_REGISTER_INSTRUCTION,
                       !.lcd._current_row = row % s.lcd._columns,
                       !.lcd._current_column = col % s.lcd._rows], LAMBDA s1 :
        Bind(s1.lcd._current_row * ADDR_ROW_INCREMENT
             + s1.lcd._current_column * ADDR_COL_INCREMENT, LAMBDA cursor_addr :
        Bind(ddram_address_set(cursor_addr), LAMBDA ddram_addr_set :
        Then(_send(s1, ddram_addr_set), LAMBDA s2 :
        [s2 EXCEPT !.lcd._write_enable = prev_write_enable,
                   !.lcd._register = prev_register]))))

\* Variant: the selectors are not put back.
set_position_no_restore(s, row, col) ==
    Bind([s EXCEPT !.lcd._write_enable = FLAG_WRITE_ENABLE,
                   !.lcd._register = FLAG_REGISTER_INSTRUCTION,
                   !.lcd._current_row = row % s.lcd._rows,
                   !.lcd._current_column = col % s.lcd._columns], LAMBDA s1 :
    Bind(s1.lcd._current_row * ADDR_ROW_INCREMENT
         + s1.lcd._current_column * ADDR_COL_INCREMENT, LAMBDA cursor_addr :
    Bind(ddram_address_set(cursor_addr), LAMBDA ddram_addr_set :
    _send(s1, ddram_addr_set))))

set_position(s, row, col) ==
    LET prev_write_enable == s.lcd._write_enable
        prev_register == s.lcd._register
    IN  Bind([s EXCEPT !.lcd._write_enable = FLAG_WRITE_ENABLE,
                       !.lcd._register = FLAG_REGISTER_INSTRUCTION,
                       !.lcd._current_row = row % s.lcd._rows,
                       !.lcd._current_column = col % s.lcd._columns], LAMBDA s1 :
        Bind(s1.lcd._current_row * ADDR_ROW_INCREMENT
             + s1.lcd._current_column * ADDR_COL_INCREMENT, LAMBDA cursor_addr :
        Bind(ddram_address_set(cursor_addr), LAMBDA ddram_addr_set :
        Then(_send(s1, ddram_addr_set), LAMBDA s2 :
        [s2 EXCEPT !.lcd._write_enable = prev_write_enable,
                   !.lcd._register = prev_register]))))

NEWLINE == 10

\* Variant: the wrap comes one column late.
write_char_late_wrap(s, char) ==
    Then(IF char = NEWLINE \/ s.lcd._current_column = s.lcd._columns + 1
         THEN set_position(s, (s.lcd._current_row + 1) % s.lcd._rows, 0)
         ELSE s, LAMBDA s1 :
    Then(_send(s1, char), LAMBDA s2 :
    [s2 EXCEPT !.lcd._current_column = s2.lcd._current_column + 1]))

\* Variant: the wrap stays on the row it left.
write_char_same_row(s, char) ==
    Then(IF char = NEWLINE \/ s.lcd._current_column = s.lcd._columns
         THEN set_position(s, s.lcd._current_row % s.lcd._rows, 0)
         ELSE s, LAMBDA s1 :
    Then(_send(s1, char), LAMBDA s2 :
    [s2 EXCEPT !.lcd._current_column = s2.lcd._current_column + 1]))

\* Variant: only a newline moves to the next row.
write_char_no_wrap(s, char) ==
    Then(IF char = NEWLINE
         THEN set_position(s, (s.lcd._current_row + 1) % s.lcd._rows, 0)
         ELSE s, LAMBDA s1 :
    Then(_send(s1, char), LAMBDA s2 :
    [s2 EXCEPT !.lcd._current_column = s2.lcd._current_column + 1]))

\* The body of the loop of write, for one character (its code point).
write_char(s, char) ==
    Then(IF char = NEWLINE \/ s.lcd._current_column = s.lcd._columns
         THEN set_position(s, (s.lcd._current_row + 1) % s.lcd._rows, 0)
         ELSE s, LAMBDA s1 :
    Then(_send(s1, char), LAMBDA s2 :
    [s2 EXCEPT !.lcd._current_column = s2.lcd._current_column + 1]))

RECURSIVE write_loop(_, _, _)
write_loop(s, value, i) ==
    IF i > Len(value)
    THEN s
    ELSE Then(write_char(s, value[i]), LAMBDA s1 :
         write_loop(s1, value, i + 1))

write(s, value) ==
    Bind([s EXCEPT !.lcd._write_enable = FLAG_WRITE_ENABLE,
                   !.lcd._register = FLAG_REGISTER_DATA], LAMBDA s1 :
    write_loop(s1, value, 1))

\* Variant: a cold-boot step without its settle time.
boot_pulse_no_settle(s, val) ==
    Then(write_gpio(s, val), LAMBDA s1 :
    _pulse_enable(s1, val))

\* One cold-boot step of the constructor:
\* write_gpio(val); _pulse_enable(val); sleep(5 * MILLISECOND)
boot_pulse(s, val) ==
    Then(write_gpio(s, val), LAMBDA s1 :
    Then(_pulse_enable(s1, val), LAMBDA s2 :
    sleep(s2, 5 * MILLISECOND)))

\* The object and the display when the constructor has set the fields: the
\* display has just been powered and is in 8-bit mode.
PowerOn(rows, columns, busy0) ==
    [lcd |-> [_backlight |-> FLAG_BACKLIGHT_OFF,
              _write_enable |-> FLAG_WRITE_ENABLE,
              _register |-> FLAG_REGISTER_INSTRUCTION,
              _cursor_on |-> TRUE,
              _blink_on |-> FALSE,
              _display_on |-> FALSE,
              _rows |-> rows,
              _columns |-> columns,
              _current_row |-> 0,
              _current_column |-> 0],
     pcf |-> [gpio |-> <<>>, latch |-> 255, mode8 |-> TRUE, nib |-> 0, hi |-> 0,
              ac |-> 0, dctl |-> DISPLAY_CONTROL, busy |-> 0, nsent |-> 0,
              busy0 |-> busy0, stuck |-> FALSE, ready |-> TRUE, hasty |-> FALSE,
              fuel |-> 0 - 1, bus |-> <<>>],
     ret |-> 0,
     exc |-> ""]

\* Variant: the display is cleared before it is configured.
__init__clear_first(rows, columns, busy0) ==
    Bind(PowerOn(rows, columns, busy0), LAMBDA s0 :
    Then(sleep(s0, 50 * MILLISECOND), LAMBDA s0a :
    Bind(BitOr(FUNCTION_SET, DATA_LENGTH_8_BIT), LAMBDA val8 :
    Then(boot_pulse(s0a, val8), LAMBDA s1a :
    Then(boot_pulse(s1a, val8), LAMBDA s1b :
    Then(boot_pulse(s1b, val8), LAMBDA s1 :
    Then(boot_pulse(s1, FUNCTION_SET), LAMBDA s2 :
    Bind(function_set(4, 2, "5x8"), LAMBDA mode_4bit :
    Then(_send(s2, mode_4bit), LAMBDA s3 :
    Then(clear(s3), LAMBDA s4 :
    Then(_configure_display(s4), LAMBDA s5 :
    Bind(entry_mode_set("increment", FALSE), LAMBDA entry_mode :
    Then(_send(s5, entry_mode), LAMBDA s6 :
    Then(sleep(s6, MILLISECOND), LAMBDA s6a :
    Bind([s6a EXCEPT !.lcd._display_on = TRUE], LAMBDA s7 :
    Then(_configure_display(s7), LAMBDA s8 :
    backlight(s8, TRUE)))))))))))))))))

\* The statements of the constructor after the fields are set.
__init__body(s0) ==
    Then(sleep(s0, 50 * MILLISECOND), LAMBDA s0a :
    Bind(BitOr(FUNCTION_SET, DATA_LENGTH_8_BIT), LAMBDA val8 :
    Then(boot_pulse(s0a, val8), LAMBDA s1a :
    Then(boot_pulse(s1a, val8), LAMBDA s1b :
    Then(boot_pulse(s1b, val8), LAMBDA s1 :
    Then(boot_pulse(s1, FUNCTION_SET), LAMBDA s2 :
    Bind(function_set(4, 2, "5x8"), LAMBDA mode_4bit :
    Then(_send(s2, mode_4bit), LAMBDA s3 :
    Then(_configure_display(s3), LAMBDA s4 :
    Then(clear(s4), LAMBDA s5 :
    Bind(entry_mode_set("increment", FALSE), LAMBDA entry_mode :
    Then(_send(s5, entry_mode), LAMBDA s6 :
    Then(sleep(s6, MILLISECOND), LAMBDA s6a :
    Bind([s6a EXCEPT !.lcd._display_on = TRUE], LAMBDA s7 :
    Then(_configure_display(s7), LAMBDA s8 :
    backlight(s8, TRUE))))))))))))))))

__init__(rows, columns, busy0) ==
    __init__body(PowerOn(rows, columns, busy0))

(***************************************************************************)
(* State machine: one LCD object and its display, one public call per step *)
(***************************************************************************)
VARIABLES
    lcd,    \* the LCD object's fields
    pcf,    \* expander latch, display state, bus trace of the latest call
    call,   \* the latest call: op (the method) and its arguments (on; row, col;
            \* value; byte). For write, row and col hold the cursor position
            \* the call started from. exc is the exception it raised ("" if it
            \* returned), fuel the number of bus transactions the bus allowed
            \* it, ret the value a private method returned. While _send is
            \* in its polling loop pc is "polling", polls
            \* counts the polls made and frame holds its saved selectors.
    prev    \* whether the call before the latest one was backlight(True)

vars == <<lcd, pcf, call, prev>>

MaxRows == 2
MaxCols == 2
MaxLen == MaxCols + 1

\* Strings are sequences of code points: ord("A") = 65, ord("a") = 97, ...
Configs == {<<1, 1>>, <<MaxRows, MaxCols>>}
Chars == {NEWLINE, 65}
Strings == UNION {[1 .. n -> Chars] : n \in 0 .. MaxLen}
Texts == {t \in Strings : \A i \in 1 .. Len(t) : t[i] = NEWLINE => i = 1 /\ Len(t) <= 2}
RowArgs == {0 - 1, 0, MaxRows}
ColArgs == {0 - 1, 0, MaxCols}

Call(op, on, row, col, value) ==
    [op |-> op, on |-> on, row |-> row, col |-> col, value |-> value, byte |-> 0,
     exc |-> "", fuel |-> 0 - 1, pc |-> "returned", polls |-> 0, frame |-> <<>>,
     ret |-> 0]

\* The world a call starts in: the bus trace is recorded per call.
Start ==
    [lcd |-> lcd,
     pcf |-> [pcf EXCEPT !.gpio = <<>>, !.nsent = 0, !.bus = <<>>, !.hasty = FALSE],
     ret |-> 0,
     exc |-> ""]

Finish(s, c) ==
    \E done \in {s} :
    /\ lcd' = done.lcd
    /\ pcf' = done.pcf
    /\ call' = [c EXCEPT !.exc = done.exc]
    /\ prev' = (call.op = "backlight" /\ call.on)

InitWith(configs, slowness) ==
    \E cfg \in configs, busy0 \in slowness :
        \E s \in {__init__(cfg[1], cfg[2], busy0)} :
            /\ lcd = s.lcd
            /\ pcf = s.pcf
            /\ call = Call("__init__", FALSE, 0, 0, <<>>)
            /\ prev = FALSE

Clear == Finish(clear(Start), Call("clear", FALSE, 0, 0, <<>>))

Home == Finish(home(Start), Call("home", FALSE, 0, 0, <<>>))

Backlight ==
    \E on \in BOOLEAN :
        Finish(backlight(Start, on), Call("backlight", on, 0, 0, <<>>))

Cursor ==
    \E on \in BOOLEAN :
        Finish(cursor(Start, on), Call("cursor", on, 0, 0, <<>>))

Blink ==
    \E on \in BOOLEAN :
        Finish(blink(Start, on), Call("blink", on, 0, 0, <<>>))

SetPositionIn(rowArgs, colArgs) ==
    \E row \in rowArgs, col \in colArgs :
        Finish(set_position(Start, row, col), Call("set_position", FALSE, row, col, <<>>))

WriteIn(texts) ==
    \E value \in texts :
        Finish(write(Start, value),
               Call("write", FALSE, lcd._current_row, lcd._current_column, value))

SetPosition == SetPositionIn(RowArgs, ColArgs)

Write == WriteIn(Texts)

Init == InitWith(Configs, 0 .. MaxBusy)

Next ==
    \/ Clear
    \/ Home
    \/ Backlight
    \/ Cursor
    \/ Blink
    \/ SetPosition
    \/ Write

Spec == Init /\ [][Next]_vars

(***************************************************************************)
(* The default display, 2 rows of 16 columns: set_position over a range of *)
(* arguments on both sides of the valid ones, and write of a text longer   *)
(* than a row and of a text with a newline in it.                          *)
(***************************************************************************)
MaxRowArg == 2
MaxColArg == 17

RowArgs16 == (0 - MaxRowArg) .. MaxRowArg
ColArgs16 == (0 - MaxColArg) .. MaxColArg
Texts16 == {[i \in 1 .. DEFAULT_COLUMNS + 1 |-> 65],
            <<97, 98, NEWLINE, 99, 100>>}

SetPosition16 == SetPositionIn(RowArgs16, ColArgs16)

Write16 == WriteIn(Texts16)

Init16 == InitWith({<<DEFAULT_ROWS, DEFAULT_COLUMNS>>}, {0})

Next16 ==
    \/ SetPosition16
    \/ Write16

Spec16 == Init16 /\ [][Next16]_vars

(***************************************************************************)
(* _send_byte on its own: every byte value under every combination of the  *)
(* control bits, on a display that has been constructed.                   *)
(***************************************************************************)
Bytes == 0 .. 255

InitByte ==
    \E s \in {__init__(DEFAULT_ROWS, DEFAULT_COLUMNS, 0)} :
        \E byte \in Bytes,
           bl \in {FLAG_BACKLIGHT_OFF, FLAG_BACKLIGHT_ON},
           rw \in {FLAG_WRITE_ENABLE, FLAG_READ_ENABLE},
           rs \in {FLAG_REGISTER_INSTRUCTION, FLAG_REGISTER_DATA} :
            /\ lcd = [s.lcd EXCEPT !._backlight = bl, !._write_enable = rw,
                                   !._register = rs]
            /\ pcf = s.pcf
            /\ call = [Call("pending", FALSE, 0, 0, <<>>) EXCEPT !.byte = byte]
            /\ prev = FALSE

SendByte ==
    /\ call.op = "pending"
    /\ Finish(_send_byte(Start, call.byte), [call EXCEPT !.op = "_send_byte"])

SpecByte == InitByte /\ [][SendByte]_vars

(***************************************************************************)
(* _send one poll at a time, on a display whose busy flag may be stuck: a  *)
(* call of _send that never returns has no state "at return", so here each *)
(* turn of the loop of _wait_for_ready is a step. SendBegin is _send up to *)
(* the loop, Poll is one turn of the loop and, when the busy flag was read *)
(* clear, the rest of _wait_for_ready. The thread runs, so a turn that can *)
(* be taken is taken (weak fairness of Poll).                              *)
(***************************************************************************)
MaxPolls == 3

\* <<byte, register>>: an instruction, a character, an address
SendBytes == {<<clear_display, FLAG_REGISTER_INSTRUCTION>>,
              <<65, FLAG_REGISTER_DATA>>,
              <<ddram_address_set(ADDR_ROW_INCREMENT), FLAG_REGISTER_INSTRUCTION>>}

InitWait ==
    \E busy0 \in 0 .. MaxBusy, stuck \in BOOLEAN :
        \E s \in {__init__(DEFAULT_ROWS, DEFAULT_COLUMNS, busy0)} :
            /\ lcd = s.lcd
            /\ pcf = [s.pcf EXCEPT !.stuck = stuck]
            /\ call = Call("__init__", FALSE, 0, 0, <<>>)
            /\ prev = FALSE

SendBegin ==
    /\ call.pc = "returned"
    /\ \E m \in SendBytes :
       \E s0 \in {[Start EXCEPT !.lcd._write_enable = FLAG_WRITE_ENABLE,
                                !.lcd._register = m[2]]} :
       \E s1 \in {_send_byte(s0, m[1])} :
       \E s2 \in {_wait_for_ready_enter(s1)} :
           /\ lcd' = s2.lcd
           /\ pcf' = s2.pcf
           /\ call' = [Call("_send", FALSE, 0, 0, <<>>) EXCEPT
                          !.byte = m[1],
                          !.pc = "polling",
                          !.frame = <<s1.lcd._write_enable, s1.lcd._register>>]
           /\ prev' = FALSE

Poll ==
    /\ call.pc = "polling"
    /\ \E s0 \in {[lcd |-> lcd,
                   pcf |-> [pcf EXCEPT !.gpio = <<>>, !.bus = <<>>],
                   ret |-> 0,
                   exc |-> ""]} :
       \E s1 \in {_wait_for_ready_turn(s0)} :
       \E s2 \in {IF s1.ret THEN s1
                  ELSE _wait_for_ready_leave(s1, call.frame[1], call.frame[2])} :
           /\ lcd' = s2.lcd
           /\ pcf' = s2.pcf
           /\ call' = [call EXCEPT
                          !.pc = IF s1.ret THEN "polling" ELSE "returned",
                          !.polls = IF call.polls < MaxPolls
                                    THEN call.polls + 1 ELSE MaxPolls]
           /\ prev' = prev

NextWait ==
    \/ SendBegin
    \/ Poll

SpecWait == InitWait /\ [][NextWait]_vars /\ WF_vars(Poll)

(***************************************************************************)
(* A bus that fails: the constructor and the public operations on an I2C   *)
(* bus that lets through a number of transactions and then fails. The      *)
(* exception is not caught by the caller: nothing is called after it.      *)
(***************************************************************************)
MaxFuel == 9

Fuels == 0 .. MaxFuel

StartFailing(fuel) == [Start EXCEPT !.pcf.fuel = fuel]

FinishFailing(s, c, fuel) == Finish(s, [c EXCEPT !.fuel = fuel])

InitFail ==
    \E cfg \in Configs, busy0 \in 0 .. MaxBusy, fuel \in {0 - 1} \cup Fuels :
        \E s \in {__init__body([PowerOn(cfg[1], cfg[2], busy0) EXCEPT !.pcf.fuel = fuel])} :
            /\ lcd = s.lcd
            /\ pcf = s.pcf
            /\ call = [Call("__init__", FALSE, 0, 0, <<>>) EXCEPT !.exc = s.exc,
                                                                 !.fuel = fuel]
            /\ prev = FALSE

ClearFailing ==
    /\ call.exc = ""
    /\ \E fuel \in Fuels :
           FinishFailing(clear(StartFailing(fuel)),
                         Call("clear", FALSE, 0, 0, <<>>), fuel)

BacklightFailing ==
    /\ call.exc = ""
    /\ \E fuel \in Fuels, on \in BOOLEAN :
           FinishFailing(backlight(StartFailing(fuel), on),
                         Call("backlight", on, 0, 0, <<>>), fuel)

SetPositionFailing ==
    /\ call.exc = ""
    /\ \E fuel \in Fuels :
           FinishFailing(set_position(StartFailing(fuel), MaxRows - 1, 0),
                         Call("set_position", FALSE, MaxRows - 1, 0, <<>>), fuel)

WriteFailing ==
    /\ call.exc = ""
    /\ \E fuel \in Fuels :
           FinishFailing(write(StartFailing(fuel), <<65>>),
                         Call("write", FALSE, lcd._current_row, lcd._current_column,
                              <<65>>), fuel)

NextFail ==
    \/ ClearFailing
    \/ BacklightFailing
    \/ SetPositionFailing
    \/ WriteFailing

SpecFail == InitFail /\ [][NextFail]_vars

(***************************************************************************)
(* The encoders of HD44780Instruction on their own: calls of the four      *)
(* encoders that take flags, each with every valid combination of its      *)
(* arguments, one after the other. There is no LCD object here: call is    *)
(* the latest call (value holds its arguments, byte the opcode returned)   *)
(* and prev the call before it.                                            *)
(***************************************************************************)
Encoded(op, args, opcode) ==
    /\ call' = [Call(op, FALSE, 0, 0, args) EXCEPT !.byte = opcode]
    /\ prev' = call
    /\ UNCHANGED <<lcd, pcf>>

InitEnc ==
    /\ lcd = <<>>
    /\ pcf = <<>>
    /\ call = Call("import", FALSE, 0, 0, <<>>)
    /\ prev = Call("import", FALSE, 0, 0, <<>>)

EntryModeSet ==
    \E address \in {"increment", "decrement"}, shift \in BOOLEAN :
        Encoded("entry_mode_set", <<address, shift>>, entry_mode_set(address, shift))

DisplayControl ==
    \E display_on \in BOOLEAN, cursor_on \in BOOLEAN, blink_on \in BOOLEAN :
        Encoded("display_control", <<display_on, cursor_on, blink_on>>,
                display_control(display_on, cursor_on, blink_on))

CursorControl ==
    \E shift \in {"cursor", "display"}, direction \in {"right", "left"} :
        Encoded("cursor_control", <<shift, direction>>, cursor_control(shift, direction))

FunctionSet ==
    \E bits \in {8, 4}, lines \in {2, 1}, font \in {"5x8", "5x10"} :
        Encoded("function_set", <<bits, lines, font>>, function_set(bits, lines, font))

NextEnc ==
    \/ EntryModeSet
    \/ DisplayControl
    \/ CursorControl
    \/ FunctionSet

SpecEnc == InitEnc /\ [][NextEnc]_vars

(***************************************************************************)
(* The public operations, and after any of them one call of _pulse_enable  *)
(* or of _send_byte on its own, with the value it returns.                 *)
(***************************************************************************)
PulseBytes == {BitOr(FUNCTION_SET, DATA_LENGTH_8_BIT),
               FLAG_READ_ENABLE,
               BitOr(DDRAM_ADDR_SET, BitOr(FLAG_DATA_ENABLE, FLAG_REGISTER_DATA))}

IsPublic(op) == op \notin {"_pulse_enable", "_send_byte"}

FinishPrivate(s, c) ==
    \E returned \in {s} :
        Finish(returned, [c EXCEPT !.ret = returned.ret])

Public ==
    /\ IsPublic(call.op)
    /\ Next

PulseEnable ==
    /\ IsPublic(call.op)
    /\ \E byte \in PulseBytes :
           FinishPrivate(_pulse_enable(Start, byte),
                         [Call("_pulse_enable", FALSE, 0, 0, <<>>) EXCEPT !.byte = byte])

SendByteAlone ==
    /\ IsPublic(call.op)
    /\ \E byte \in {read_busy_flag, DDRAM_ADDR_SET + ADDR_ROW_INCREMENT} :
           FinishPrivate(_send_byte(Start, byte),
                         [Call("_send_byte", FALSE, 0, 0, <<>>) EXCEPT !.byte = byte])

NextPulse ==
    \/ Public
    \/ PulseEnable
    \/ SendByteAlone

SpecPulse == Init /\ [][NextPulse]_vars

(***************************************************************************)
(* What the display sees of a call: the bus trace pcf.gpio decoded the way *)
(* the HD44780 decodes it. A nibble is strobed on each falling edge of E;  *)
(* in 4-bit mode two strobes make one transfer: a byte with the register   *)
(* select (rs), read/write (rw) and backlight (bl) lines that went with it.*)
(***************************************************************************)
\* The bytes on the pins at each falling edge of E, in order.
Strobes(g) ==
    LET edges == SelectSeq([i \in 1 .. (Len(g) - 1) |-> i],
                           LAMBDA i : EnableHigh(g[i]) /\ ~EnableHigh(g[i + 1]))
    IN  [k \in 1 .. Len(edges) |-> g[edges[k]]]

Transfers(p) ==
    [k \in 1 .. (Len(p) \div 2) |->
        [byte |-> (p[2 * k - 1] \div 16) * 16 + (p[2 * k] \div 16),
         rs |-> p[2 * k - 1] % 2,
         rw |-> (p[2 * k - 1] \div 2) % 2,
         bl |-> (p[2 * k - 1] \div 8) % 2]]

\* The transfers of the latest call; the constructor's first four strobes
\* are its cold-boot pulses, taken by the display in 8-bit mode.
CallStrobes == Strobes(pcf.gpio)
CallTransfers ==
    IF call.op = "__init__"
    THEN Transfers(SubSeq(CallStrobes, 5, Len(CallStrobes)))
    ELSE Transfers(CallStrobes)

IsWritten(x) == x.rw = 0
IsInstruction(x) == x.rw = 0 /\ x.rs = 0
IsPoll(x) == x.rw = 1 /\ x.rs = 0

\* The bytes written to the display (instructions and data), without the polls.
Written(T) == SelectSeq(T, IsWritten)
\* The instruction opcodes among them.
Opcodes(T) == [k \in 1 .. Len(SelectSeq(T, IsInstruction)) |->
                  SelectSeq(T, IsInstruction)[k].byte]
ByteAndRegister(W) == [k \in 1 .. Len(W) |-> <<W[k].byte, W[k].rs>>]

NoNewline(value) == \A i \in 1 .. Len(value) : value[i] # NEWLINE

(***************************************************************************)
(* C1  Cursor bounds.                                                      *)
(***************************************************************************)
\* C1 as claimed: at the return of every operation 0 <= current_row < rows
\* and 0 <= current_column < columns.
C1_CursorInBounds ==
    /\ 0 <= lcd._current_row /\ lcd._current_row < lcd._rows
    /\ 0 <= lcd._current_column /\ lcd._current_column < lcd._columns

\* C1 as amended: at the return of every operation 0 <= current_row < rows
\* and 0 <= current_column <= columns; current_column < columns at the
\* return of the constructor, clear, home and set_position. (write leaves
\* current_column = columns when its last character filled the row: the
\* wrap is made by the next write.)
C1_CursorBoundsAmended ==
    /\ 0 <= lcd._current_row /\ lcd._current_row < lcd._rows
    /\ 0 <= lcd._current_column /\ lcd._current_column <= lcd._columns
    /\ call.op \in {"__init__", "clear", "home", "set_position"}
           => lcd._current_column < lcd._columns

C1_Witness ==
    /\ call.op = "write"
    /\ Len(call.value) > 0
    /\ lcd._current_column = lcd._columns

(***************************************************************************)
(* C2  Newline handling in write().                                        *)
(***************************************************************************)
\* What C2 says write(value) from (row, col) sends and where it leaves the
\* cursor: a newline only moves the cursor to ((row + 1) mod rows, 0); any
\* other character is sent to the data register, after a wrap when the row
\* is full, and moves the cursor on by one.
RECURSIVE C2_Claimed(_, _, _, _, _)
C2_Claimed(value, i, row, col, sent) ==
    IF i > Len(value)
    THEN [sent |-> sent, row |-> row, col |-> col]
    ELSE LET next == (row + 1) % lcd._rows
             goto == <<DDRAM_ADDR_SET + next * ADDR_ROW_INCREMENT, 0>>
         IN  IF value[i] = NEWLINE
             THEN C2_Claimed(value, i + 1, next, 0, Append(sent, goto))
             ELSE IF col = lcd._columns
                  THEN C2_Claimed(value, i + 1, next, 1,
                                  sent \o <<goto, <<value[i], 1>> >>)
                  ELSE C2_Claimed(value, i + 1, row, col + 1,
                                  Append(sent, <<value[i], 1>>))

\* C2: when write() meets a newline it forces the cursor to
\* ((current_row + 1) mod rows, 0) and the characters after the newline are
\* written starting at column 0 of that row; write("ab\ncd") from (0, 0)
\* writes a, b, forces (1, 0), and writes c, d at (1, 0), (1, 1).
C2_NewlineHandling ==
    (call.op = "write" /\ ~NoNewline(call.value)) =>
        LET claimed == C2_Claimed(call.value, 1, call.row, call.col, <<>>)
        IN  /\ ByteAndRegister(Written(CallTransfers)) = claimed.sent
            /\ lcd._current_row = claimed.row
            /\ lcd._current_column = claimed.col

(***************************************************************************)
(* C3  Line wrap in write().                                               *)
(***************************************************************************)
C3_Case ==
    /\ call.op = "write"
    /\ call.col = 0
    /\ Len(call.value) = lcd._columns + 1
    /\ NoNewline(call.value)

\* C3: write() of columns + 1 non-newline characters starting at (r, 0)
\* transmits exactly one ddram_address_set, between the character bytes
\* number columns and columns + 1, addressing ((r + 1) mod rows, 0); the
\* last character follows it and current_column is 1 on return, in row
\* (r + 1) mod rows (row 0 after the last row).
C3_LineWrap ==
    C3_Case =>
        LET W == Written(CallTransfers)
            C == lcd._columns
            next == (call.row + 1) % lcd._rows
        IN  /\ Len(W) = C + 2
            /\ \A i \in 1 .. C : W[i].rs = 1 /\ W[i].byte = call.value[i]
            /\ W[C + 1].rs = 0
            /\ W[C + 1].byte = ddram_address_set(next * ADDR_ROW_INCREMENT)
            /\ W[C + 2].rs = 1 /\ W[C + 2].byte = call.value[C + 1]
            /\ lcd._current_row = next
            /\ lcd._current_column = 1

\* from the last row of a display of several rows, back to row 0
C3_Witness ==
    /\ C3_Case
    /\ lcd._rows > 1
    /\ call.row = lcd._rows - 1
    /\ lcd._current_row = 0

(***************************************************************************)
(* C4  set_position on the default display.                                *)
(***************************************************************************)
C4_Case ==
    /\ call.op = "set_position"
    /\ lcd._rows = 2
    /\ lcd._columns = 16

\* C4: with rows = 2 and columns = 16, set_position(row, col) sets
\* current_row = row mod 2 and current_column = col mod 16 and transmits
\* exactly one instruction, 0x80 | ((row mod 2) * 0x40 + (col mod 16)),
\* also for arguments that are negative or beyond the display.
C4_SetPosition ==
    C4_Case =>
        /\ lcd._current_row = call.row % 2
        /\ lcd._current_column = call.col % 16
        /\ ByteAndRegister(Written(CallTransfers))
               = << <<128 + (call.row % 2) * 64 + (call.col % 16), 0>> >>

C4_Witness ==
    /\ C4_Case
    /\ call.row < 0
    /\ call.col > 16
    /\ lcd._current_row = 1
    /\ lcd._current_column = 1

(***************************************************************************)
(* C5  Selector restoration.                                               *)
(***************************************************************************)
\* C5 as claimed: at the return of every public operation register_select
\* is instruction and read_write_select is write.
C5_SelectorsRestored ==
    /\ lcd._register = FLAG_REGISTER_INSTRUCTION
    /\ lcd._write_enable = FLAG_WRITE_ENABLE

C5_AtReturn ==
    /\ lcd._write_enable = FLAG_WRITE_ENABLE
    /\ call.op \in {"__init__", "clear", "home", "backlight", "cursor", "blink"}
           => lcd._register = FLAG_REGISTER_INSTRUCTION
    /\ call.op = "write" => lcd._register = FLAG_REGISTER_DATA

C5_SetPositionKeeps ==
    call'.op = "set_position" => lcd'._register = lcd._register

\* C5 as amended: at the return of every public operation read_write_select
\* is write; register_select is instruction at the return of the
\* constructor, clear, home, backlight, cursor and blink, it is data at the
\* return of write, and set_position returns with the register_select it
\* was called with.
C5_SelectorsAmended == []C5_AtReturn /\ [][C5_SetPositionKeeps]_vars

C5_Witness ==
    /\ call.op = "set_position"
    /\ lcd._register = FLAG_REGISTER_DATA

(***************************************************************************)
(* C6  Busy-poll count.                                                    *)
(***************************************************************************)
\* The transfers made by _send: every written byte except the zero opcode
\* of backlight, which goes out through _send_byte alone.
C6_IsSend(T, k) ==
    /\ IsWritten(T[k])
    /\ call.op # "backlight"
    /\ ~(call.op = "__init__" /\ k = Len(T))

\* C6: if the display answers busy to the first N polls after a byte and
\* not busy to poll N + 1, _send performs exactly N + 1 polls and then
\* returns: the byte is followed by N + 1 busy-flag reads and then by the
\* next byte of the operation or by nothing.
C6_BusyPollCount ==
    LET T == CallTransfers
    IN  \A k \in 1 .. Len(T) :
            C6_IsSend(T, k) =>
                LET j == Cardinality({m \in 1 .. k : IsWritten(T[m])})
                    N == BusyAfter(pcf.busy0, j)
                IN  /\ k + N + 1 <= Len(T)
                    /\ \A m \in (k + 1) .. (k + N + 1) : IsPoll(T[m])
                    /\ k + N + 2 <= Len(T) => IsWritten(T[k + N + 2])

\* a byte answered busy once or more, then ready
C6_Witness ==
    /\ call.op = "home"
    /\ BusyAfter(pcf.busy0, 1) > 0
    /\ Len(CallTransfers) = BusyAfter(pcf.busy0, 1) + 2

(***************************************************************************)
(* C7  Nibble split and order in _send_byte.                               *)
(***************************************************************************)
C7_ControlBits == lcd._backlight + lcd._write_enable + lcd._register

\* C7: for every byte b and control bits c, _send_byte transmits
\* (b & 0xF0) | c first and ((b & 0x0F) << 4) | c second, each strobed once.
C7_NibbleSplit ==
    call.op = "_send_byte" =>
        LET first == (call.byte \div 16) * 16 + C7_ControlBits
            second == (call.byte % 16) * 16 + C7_ControlBits
        IN  /\ Len(pcf.gpio) >= 4
            /\ pcf.gpio[1] = first
            /\ pcf.gpio[4] = second
            /\ CallStrobes = <<first + FLAG_DATA_ENABLE, second + FLAG_DATA_ENABLE>>

\* 0xA5 goes out as 0xA0 then 0x50
C7_Witness ==
    /\ call.op = "_send_byte"
    /\ call.byte = 165
    /\ pcf.gpio[1] \div 16 = 10
    /\ pcf.gpio[4] \div 16 = 5

(***************************************************************************)
(* C8  Backlight frame.                                                    *)
(***************************************************************************)
C8_Step ==
    call'.op = "backlight" =>
        /\ lcd'._cursor_on = lcd._cursor_on
        /\ lcd'._blink_on = lcd._blink_on
        /\ lcd'._display_on = lcd._display_on
        /\ lcd'._current_row = lcd._current_row
        /\ lcd'._current_column = lcd._current_column
        /\ (call.op = "backlight" /\ call.on /\ ~call'.on) =>
               /\ Len(pcf'.gpio) = Len(pcf.gpio)
               /\ \A i \in 1 .. Len(pcf.gpio) :
                      /\ (pcf.gpio[i] \div FLAG_BACKLIGHT_ON) % 2 = 1
                      /\ pcf'.gpio[i] = pcf.gpio[i] - FLAG_BACKLIGHT_ON

\* C8: backlight(True) then backlight(False) leaves cursor_on, blink_on,
\* display_on, current_row and current_column unchanged, and the bytes the
\* two calls write to the expander differ in bit 3 only.
C8_BacklightFrame == [][C8_Step]_vars

C8_Witness ==
    /\ call.op = "backlight"
    /\ ~call.on
    /\ prev
    /\ Len(pcf.gpio) > 0

(***************************************************************************)
(* C9  Construction ordering.                                              *)
(***************************************************************************)
\* C9 as claimed: after the cold-boot pulses the constructor transmits
\* function_set(4-bit, 2-line, 5x8), display_control, clear_display,
\* entry_mode_set(increment, no shift) and then enables the backlight (the
\* zero opcode of backlight), with no other instruction opcode in between.
C9_ConstructionOrder ==
    call.op = "__init__" =>
        LET ops == Opcodes(CallTransfers)
        IN  /\ Len(ops) = 5
            /\ ops[1] = 40
            /\ ops[2] \div 8 = 1
            /\ ops[3] = 1
            /\ ops[4] = 6
            /\ ops[5] = 0

\* C9 as amended: after the cold-boot pulses the constructor transmits
\* function_set(4-bit, 2-line, 5x8), display_control with the display off
\* (0x0A), clear_display, entry_mode_set(increment, no shift), a second
\* display_control that turns the display on (0x0E), and then enables the
\* backlight: the zero opcode, the first byte to carry the backlight bit.
C9_ConstructionOrderAmended ==
    call.op = "__init__" =>
        LET W == Written(CallTransfers)
        IN  /\ Opcodes(CallTransfers) = <<40, 10, 1, 6, 14, 0>>
            /\ Len(W) = 6
            /\ \A k \in 1 .. 5 : W[k].bl = 0
            /\ W[6].bl = 1
            /\ lcd._backlight = FLAG_BACKLIGHT_ON

C9_Witness ==
    /\ call.op = "__init__"
    /\ Len(Opcodes(CallTransfers)) = 6
    /\ pcf.dctl = 14

(***************************************************************************)
(* C10  Display-control synchronisation.                                   *)
(***************************************************************************)
C10_Opcode ==
    8 + (IF lcd._display_on THEN 4 ELSE 0) + (IF lcd._cursor_on THEN 2 ELSE 0)
      + (IF lcd._blink_on THEN 1 ELSE 0)

C10_AtReturn ==
    /\ pcf.dctl = C10_Opcode
    /\ call.op \in {"cursor", "blink"} => Opcodes(CallTransfers) = <<C10_Opcode>>
    /\ call.op = "cursor" => lcd._cursor_on = call.on
    /\ call.op = "blink" => lcd._blink_on = call.on

C10_OwnFlagOnly ==
    /\ call'.op = "cursor" =>
           lcd'._blink_on = lcd._blink_on /\ lcd'._display_on = lcd._display_on
    /\ call'.op = "blink" =>
           lcd'._cursor_on = lcd._cursor_on /\ lcd'._display_on = lcd._display_on

\* C10: cursor(x) and blink(x) each set only their own flag and transmit
\* exactly one display_control opcode built from all three flags, so at the
\* return of every public operation the display_control opcode the display
\* got last is 0x08 | (4 if display_on) | (2 if cursor_on) | (1 if blink_on).
C10_DisplayControlSync == []C10_AtReturn /\ [][C10_OwnFlagOnly]_vars

C10_Witness ==
    /\ call.op = "blink"
    /\ call.on
    /\ lcd._cursor_on
    /\ pcf.dctl = 15

(***************************************************************************)
(* C11  Unbounded busy wait.                                               *)
(***************************************************************************)
C11_Stuck == pcf.stuck /\ call.op = "_send"

\* C11: _send has no retry bound or timeout. While the display's busy flag
\* stays set _send never returns and keeps polling (the number of polls
\* passes every bound); if the busy flag is read clear _send returns.
C11_UnboundedBusyWait ==
    /\ [](C11_Stuck => call.pc = "polling")
    /\ (C11_Stuck ~> (call.polls = MaxPolls))
    /\ ((~pcf.stuck /\ call.pc = "polling") ~> (call.pc = "returned"))

C11_Witness ==
    /\ C11_Stuck
    /\ call.pc = "polling"
    /\ call.polls = MaxPolls

(***************************************************************************)
(* C12  Bus failure propagation.                                           *)
(***************************************************************************)
\* The bus transactions of the latest call: its history without the sleeps.
IsTransaction(e) == e.kind # "sleep"
Transactions == SelectSeq(pcf.bus, IsTransaction)

\* C12: if a write_gpio or read_gpio call fails during an operation, the
\* failure reaches the caller of the operation unmodified and the operation
\* performs no further bus transaction after the failing one; an operation
\* whose transactions all succeed raises nothing.
C12_BusFailurePropagates ==
    LET T == Transactions
        failed == {i \in 1 .. Len(T) : ~T[i].ok}
    IN  /\ (failed # {}) <=> (call.exc # "")
        /\ call.exc # "" =>
               /\ call.exc = BusError
               /\ failed = {Len(T)}
               /\ Len(T) = call.fuel + 1

\* a read_gpio that failed in the middle of write
C12_Witness ==
    /\ call.op = "write"
    /\ call.exc = BusError
    /\ call.fuel > 0
    /\ Len(Transactions) = call.fuel + 1
    /\ Transactions[Len(Transactions)].kind = "read"

(***************************************************************************)
(* C13  Encoder truth table.                                               *)
(***************************************************************************)
C13_Flag(selected, bit) == IF selected THEN bit ELSE 0

\* C13: each encoder returns its instruction-type base OR'd with exactly
\* the flag bits its arguments select, each flag independent of the others:
\* entry_mode_set = 0x04 | (0x02 if increment) | (0x01 if shift);
\* display_control = 0x08 | (0x04 if display_on) | (0x02 if cursor_on)
\* | (0x01 if blink_on); cursor/display shift = 0x10 | (0x08 if display)
\* | (0x04 if right); function_set = 0x20 | (0x10 if 8-bit)
\* | (0x08 if 2 lines) | (0x04 if 5x10); function_set(4, 2, "5x8") = 0x28.
C13_EncoderTruthTable ==
    LET a == call.value
    IN  /\ call.op = "entry_mode_set" =>
               call.byte = 4 + C13_Flag(a[1] = "increment", 2) + C13_Flag(a[2], 1)
        /\ call.op = "display_control" =>
               call.byte = 8 + C13_Flag(a[1], 4) + C13_Flag(a[2], 2) + C13_Flag(a[3], 1)
        /\ call.op = "cursor_control" =>
               call.byte = 16 + C13_Flag(a[1] = "display", 8) + C13_Flag(a[2] = "right", 4)
        /\ call.op = "function_set" =>
               call.byte = 32 + C13_Flag(a[1] = 8, 16) + C13_Flag(a[2] = 2, 8)
                              + C13_Flag(a[3] = "5x10", 4)

\* function_set(4, 2, "5x8") = 0x28
C13_Witness ==
    /\ call.op = "function_set"
    /\ call.value = <<4, 2, "5x8">>
    /\ call.byte = 40

(***************************************************************************)
(* C14  Busy handshake between commands.                                   *)
(***************************************************************************)
\* C14: after the cold-boot pulses, between any two consecutive instruction
\* or data bytes transmitted to the display, across any sequence of public
\* operations, backlight included, there is a busy-flag poll that was
\* answered not busy: no byte is issued before the busy flag of the byte
\* before it has been read clear.
C14_BusyHandshake == ~pcf.hasty

(***************************************************************************)
(* C15  Bus framing of every transmitted byte.                             *)
(***************************************************************************)
IsCharacter(x) == x.rw = 0 /\ x.rs = 1

\* The instruction opcodes an operation may transmit, by its name.
C15_IsOpcodeOf(op, byte) ==
    CASE op = "clear" -> byte = 1
      [] op = "home" -> byte = 2
      [] op = "backlight" -> byte = 0
      [] op \in {"cursor", "blink"} -> byte \div 8 = 1
      [] op \in {"set_position", "write"} -> byte \div 128 = 1
      [] op = "__init__" -> byte \in {40, 10, 1, 6, 14, 0}

\* C15: each character sent by write() goes out with register-select = 1
\* and read/write = 0, each instruction opcode with register-select = 0 and
\* read/write = 0, each busy-flag poll with register-select = 0 and
\* read/write = 1, both nibbles of a byte alike; so the display receives
\* the characters of the text as data, in order, and as instructions only
\* opcodes of the operation, also around a wrap in the middle of write().
C15_BusFraming ==
    LET T == CallTransfers
        P == CallStrobes
        chars == SelectSeq(T, IsCharacter)
    IN  /\ \A i \in 1 .. Len(P) : IsRead(P[i]) => ~IsData(P[i])
        /\ \A k \in 1 .. (Len(P) \div 2) : P[2 * k - 1] % 8 = P[2 * k] % 8
        /\ \A k \in 1 .. Len(T) :
               /\ IsInstruction(T[k]) => C15_IsOpcodeOf(call.op, T[k].byte)
               /\ IsWritten(T[k]) \/ IsPoll(T[k])
        /\ IF call.op = "write"
           THEN [k \in 1 .. Len(chars) |-> chars[k].byte] = call.value
           ELSE /\ chars = <<>>
                /\ Len(SelectSeq(T, IsInstruction))
                       = (IF call.op = "__init__" THEN 6 ELSE 1)

\* a wrap in the middle of write(): character, address, character
C15_Witness ==
    /\ call.op = "write"
    /\ \E k \in 2 .. (Len(Written(CallTransfers)) - 1) :
           /\ IsCharacter(Written(CallTransfers)[k - 1])
           /\ IsInstruction(Written(CallTransfers)[k])
           /\ IsCharacter(Written(CallTransfers)[k + 1])

(***************************************************************************)
(* C16  Enable-pulse discipline.                                           *)
(***************************************************************************)
C16_IsHigh(e) == e.kind = "write" /\ EnableHigh(e.value)

\* bit 2 of the byte set, cleared
C16_High(byte) == IF EnableHigh(byte) THEN byte ELSE byte + FLAG_DATA_ENABLE
C16_Low(byte) == IF EnableHigh(byte) THEN byte - FLAG_DATA_ENABLE ELSE byte

\* C16: _pulse_enable(byte) performs, in this order, a write of byte with
\* bit 2 set, one read_gpio sample and a write of byte with bit 2 cleared,
\* and returns the sample; the two bytes written differ only in bit 2. So
\* every write with E high is followed by one sample and the same byte with
\* E low, _send_byte makes exactly two pulses, and at the return of every
\* operation the byte latched on the expander has the enable bit clear.
C16_EnablePulse ==
    LET T == Transactions
    IN  /\ ~EnableHigh(pcf.latch)
        /\ \A i \in 1 .. Len(T) :
               /\ C16_IsHigh(T[i]) =>
                      /\ i + 2 <= Len(T)
                      /\ T[i + 1].kind = "read"
                      /\ T[i + 2].kind = "write"
                      /\ T[i + 2].value = T[i].value - FLAG_DATA_ENABLE
               /\ T[i].kind = "read" => i > 1 /\ C16_IsHigh(T[i - 1])
        /\ call.op = "_pulse_enable" =>
               /\ Len(T) = 3
               /\ T[1].kind = "write" /\ T[1].value = C16_High(call.byte)
               /\ T[2].kind = "read" /\ T[2].value = call.ret
               /\ T[3].kind = "write" /\ T[3].value = C16_Low(call.byte)
        /\ call.op = "_send_byte" =>
               Len(SelectSeq(T, C16_IsHigh)) = 2

\* a pulse during a busy-flag read cycle: the sample is not the byte written
C16_Witness ==
    /\ call.op = "_pulse_enable"
    /\ call.byte = FLAG_READ_ENABLE
    /\ Len(Transactions) = 3
    /\ call.ret = Transactions[2].value
    /\ call.ret # Transactions[1].value

(***************************************************************************)
(* C17  Cold-boot sequence.                                                *)
(***************************************************************************)
\* What one cold-boot step puts on the bus: the byte, an enable pulse of it
\* with its sample, and the 5 ms settle time.
C17_Step(val) ==
    << <<"write", val>>,
       <<"write", val + FLAG_DATA_ENABLE>>,
       <<"sleep", 2 * MICROSECOND>>,
       <<"read", 0>>,
       <<"write", val>>,
       <<"sleep", 75 * MICROSECOND>>,
       <<"sleep", 5 * MILLISECOND>> >>

C17_Boot ==
    << <<"sleep", 50 * MILLISECOND>> >>
        \o C17_Step(BitOr(FUNCTION_SET, DATA_LENGTH_8_BIT))
        \o C17_Step(BitOr(FUNCTION_SET, DATA_LENGTH_8_BIT))
        \o C17_Step(BitOr(FUNCTION_SET, DATA_LENGTH_8_BIT))
        \o C17_Step(FUNCTION_SET)

\* C17: the constructor's bus activity begins with the 50 ms power-on wait,
\* then exactly three enable pulses of the 8-bit function-set byte 0x30, each
\* followed by a 5 ms wait, then one enable pulse of the 4-bit function-set
\* byte 0x20 followed by a 5 ms wait; no byte with the read/write bit set is
\* written before these four pulses are complete.
C17_ColdBoot ==
    call.op = "__init__" =>
        /\ Len(pcf.bus) > Len(C17_Boot)
        /\ \A i \in 1 .. Len(C17_Boot) :
               /\ pcf.bus[i].kind = C17_Boot[i][1]
               /\ pcf.bus[i].kind # "read" => pcf.bus[i].value = C17_Boot[i][2]
               /\ pcf.bus[i].kind = "write" => ~IsRead(pcf.bus[i].value)
        /\ Len(SelectSeq(SubSeq(pcf.bus, 1, Len(C17_Boot)), C16_IsHigh)) = 4
        /\ \E i \in Len(C17_Boot) + 1 .. Len(pcf.bus) :
               pcf.bus[i].kind = "write" /\ IsRead(pcf.bus[i].value)

C17_Witness ==
    /\ call.op = "__init__"
    /\ Len(pcf.bus) > Len(C17_Boot)
    /\ pcf.bus[1].kind = "sleep"
    /\ pcf.bus[3].value = 52
    /\ pcf.bus[24].value = 36
    /\ pcf.bus[Len(C17_Boot)].value = 5 * MILLISECOND

(***************************************************************************)
(* C18  Backlight bit on every byte.                                       *)
(***************************************************************************)
C18_IsWrite(e) == e.kind = "write"

\* C18: every byte written to the expander, for instructions, data and busy
\* polls alike, has bit 3 set if and only if the backlight state of the
\* object is on at that moment; backlight(on) sets that state and transmits
\* the zero opcode and no other instruction.
C18_BacklightBit ==
    /\ \A i \in 1 .. Len(pcf.bus) :
           C18_IsWrite(pcf.bus[i]) =>
               (BitAnd(pcf.bus[i].value, FLAG_BACKLIGHT_ON) = FLAG_BACKLIGHT_ON
                    <=> pcf.bus[i].backlight = FLAG_BACKLIGHT_ON)
    /\ call.op = "backlight" =>
           /\ lcd._backlight = IF call.on THEN FLAG_BACKLIGHT_ON
                                          ELSE FLAG_BACKLIGHT_OFF
           /\ Len(SelectSeq(pcf.bus, C18_IsWrite)) = 6
           /\ Len(CallTransfers) = 1
           /\ IsInstruction(CallTransfers[1])
           /\ CallTransfers[1].byte = 0
           /\ CallTransfers[1].bl = IF call.on THEN 1 ELSE 0

\* a write of two characters with the backlight off, polls included
C18_Witness ==
    /\ call.op = "write"
    /\ lcd._backlight = FLAG_BACKLIGHT_OFF
    /\ Len(SelectSeq(CallTransfers, IsCharacter)) = 2
    /\ Len(SelectSeq(CallTransfers, IsPoll)) >= 2
    /\ \A i \in 1 .. Len(pcf.bus) :
           C18_IsWrite(pcf.bus[i]) =>
               BitAnd(pcf.bus[i].value, FLAG_BACKLIGHT_ON) = 0

(***************************************************************************)
(* C19  Tracked cursor and the display's address counter.                  *)
(***************************************************************************)
\* C19: on a display of at most 2 rows and at most 39 columns, at the return
\* of every public operation the display's address counter equals
\* current_row * 0x40 + current_column.
C19_CursorAgrees ==
    (lcd._rows <= 2 /\ lcd._columns <= 39 /\ call.op # "__init__") =>
        pcf.ac = lcd._current_row * ADDR_ROW_INCREMENT + lcd._current_column

\* a write that wrapped onto the second row
C19_Witness ==
    /\ call.op = "write"
    /\ lcd._rows = 2
    /\ call.row = 0
    /\ lcd._current_row = 1
    /\ Len(SelectSeq(CallTransfers, IsCharacter)) > 0
    /\ pcf.ac >= ADDR_ROW_INCREMENT

(***************************************************************************)
(* C20  No off-screen character.                                           *)
(***************************************************************************)
\* a byte put on the bus for the data register, not a read cycle
C20_IsDataWrite(e) == e.kind = "write" /\ IsData(e.value) /\ ~IsRead(e.value)

\* C20: every data-register byte that write() transmits is sent while
\* 0 <= current_column < columns and 0 <= current_row < rows, after any
\* sequence of public operations.
C20_NoOffScreenCharacter ==
    call.op = "write" =>
        \A i \in 1 .. Len(pcf.bus) :
            C20_IsDataWrite(pcf.bus[i]) =>
                /\ 0 <= pcf.bus[i].col /\ pcf.bus[i].col < lcd._columns
                /\ 0 <= pcf.bus[i].row /\ pcf.bus[i].row < lcd._rows

\* a write that started at the end of a row and sent its characters on the
\* next one
C20_Witness ==
    /\ call.op = "write"
    /\ call.col = lcd._columns
    /\ Len(SelectSeq(pcf.bus, C20_IsDataWrite)) >= 12
    /\ \E i \in 1 .. Len(pcf.bus) :
           C20_IsDataWrite(pcf.bus[i]) /\ pcf.bus[i].col = 0

====
